---- MODULE Spec2Model ----
(***************************************************************************)
(* XAMPP control panel (xampp-control.py): the service orchestration and   *)
(* privilege-escalation logic of class XAMPPController.                    *)
(*                                                                         *)
(* Every operation of the controller hands its work to a background        *)
(* thread (threading.Thread(target=task)).  The model keeps a pool of      *)
(* thread slots; each slot holds the closure variables and the program     *)
(* position of one running task.  The shared state is the controller's    *)
(* dictionaries: service_status, and the text / state of the widgets in    *)
(* service_labels and service_buttons.                                     *)
(***************************************************************************)
EXTENDS Integers, Sequences, FiniteSets, TLC

VARIABLES
    service_status,   \* self.service_status[key]          : BOOLEAN
    service_labels,   \* text of self.service_labels[key]
    button_text,      \* text of self.service_buttons[key]
    button_state,     \* state of self.service_buttons[key]: "normal"/"disabled"
    threads,          \* thread slot -> task record
    call,             \* one call of a function looked at on its own
    clock,            \* datetime.now(), in seconds
    log_text          \* self.log_text: the timestamps of its lines, in order
                      \* (followed in SpecLog; elsewhere a task record keeps
                      \* the line its task logged last)

vars == <<service_status, service_labels, button_text, button_state, threads, call,
          clock, log_text>>

(***************************************************************************)
(* Bounds and program constants                                            *)
(***************************************************************************)
\* number of background threads that can be alive at the same time
MaxThreads == 2

\* the clock is followed from second 0 to second MaxClock
MaxClock == 4

\* seconds in a day, scaled down: the clock passes midnight at DayLength
DayLength == 3

\* lines the log widget holds at most before it is cleared
MaxLog == 3

\* services = ["apache", "mysql", "ftp"]
ServiceList == <<"apache", "mysql", "ftp">>

Services == {ServiceList[n] : n \in 1..Len(ServiceList)}

\* self.xampp_script = os.path.join("/opt/lampp", "lampp")
XamppScript == "/opt/lampp/lampp"

Tids == 1..MaxThreads

(***************************************************************************)
(* run_xampp_command: the ordered list of command lines                    *)
(***************************************************************************)
MethodsPromptFirst(action) ==
    << <<XamppScript, action>>,
       <<"pkexec", XamppScript, action>>,
       <<"sudo", "-n", XamppScript, action>>,
       <<"timeout", "1", "sudo", XamppScript, action>> >>

Methods(action) ==
    << <<XamppScript, action>>,
       <<"sudo", "-n", XamppScript, action>>,
       <<"pkexec", XamppScript, action>>,
       <<"timeout", "1", "sudo", XamppScript, action>> >>

\* len(methods)
NumMethods == Len(Methods("start"))

(***************************************************************************)
(* subprocess.run(command, capture_output=True, text=True, timeout=30):    *)
(* what the call can do.  The text a command prints is tagged with the     *)
(* position of the command in the list, so that the output of one          *)
(* candidate cannot be mistaken for the output of another.                 *)
(***************************************************************************)
OutText == <<"out1", "out2", "out3", "out4">>
ErrText == <<"err1", "err2", "err3", "err4">>
ExcText == <<"exc1", "exc2", "exc3", "exc4">>

SubprocessRun(n) ==
    \* the command ran to completion with some return code
    [tag : {"completed"}, returncode : {0, 1},
     stdout : {"", OutText[n]}, stderr : {"", ErrText[n]}]
    \cup
    \* subprocess.TimeoutExpired
    {[tag |-> "timeout", returncode |-> 1, stdout |-> "", stderr |-> ""]}
    \cup
    \* any other exception (FileNotFoundError, PermissionError ...); str(e)
    {[tag |-> "exception", returncode |-> 1, stdout |-> "", stderr |-> ExcText[n]]}

(***************************************************************************)
(* Log lines.  A line is kept as its fixed text and, where the code        *)
(* formats a method number or a candidate's output into it, the number of  *)
(* that method.                                                            *)
(***************************************************************************)
Line(msg, n) == [msg |-> msg, n |-> n]

(***************************************************************************)
(* run_xampp_command(action): one turn of the loop                          *)
(*     for i, command in enumerate(methods)                                *)
(* with loop index i (from 0) and r what subprocess.run did for            *)
(* methods[i].  The result tells whether the function returned, the tuple  *)
(* it returned, and the lines it logged in this turn, in order.            *)
(***************************************************************************)
Returned(succeeded, stdout, stderr) ==
    [returned |-> TRUE, succeeded |-> succeeded, stdout |-> stdout, stderr |-> stderr]

NoRet == [returned |-> FALSE, succeeded |-> FALSE, stdout |-> "", stderr |-> ""]

IsLast(i) == i = NumMethods - 1

\* the body of the try once subprocess.run has returned r
OnCompleted(i, r) ==
    IF r.returncode = 0 THEN
        [ret  |-> Returned(TRUE, r.stdout, r.stderr), raised |-> FALSE,
         logs |-> IF r.stdout # "" THEN <<Line("Output", i + 1)>> ELSE <<>>]
    ELSE IF i < NumMethods - 1 THEN
        [ret  |-> NoRet, raised |-> FALSE,
         logs |-> <<Line("Method failed, trying next...", i + 1)>>]
    ELSE
        [ret  |-> Returned(FALSE, r.stdout, r.stderr), raised |-> FALSE,
         logs |-> IF r.stderr # "" THEN <<Line("Error", i + 1)>> ELSE <<>>]

OnTimeoutAborts(i) ==
    [ret    |-> Returned(FALSE, "", "All methods timed out"),
     raised |-> FALSE,
     logs   |-> <<Line("Method timed out", i + 1)>>]

\* except subprocess.TimeoutExpired:
OnTimeout(i) ==
    [ret    |-> IF IsLast(i) THEN Returned(FALSE, "", "All methods timed out") ELSE NoRet,
     raised |-> FALSE,
     logs   |-> <<Line("Method timed out", i + 1)>>]

\* except Exception as e:
OnException(i, r) ==
    [ret    |-> IF IsLast(i) THEN Returned(FALSE, "", r.stderr) ELSE NoRet,
     raised |-> FALSE,
     logs   |-> <<Line("Method exception", i + 1)>>]

\* No path through the try / except of the loop body leaves the function
\* with an exception: raised is FALSE on each of them.
LoopTurn(i, r) ==
    LET rest == CASE r.tag = "completed" -> OnCompleted(i, r)
                  [] r.tag = "timeout"   -> OnTimeout(i)
                  [] OTHER               -> OnException(i, r)
    IN  [rest EXCEPT !.logs = <<Line("Trying method", i + 1)>> \o rest.logs]

\* for i, command in enumerate(methods): ... ; return False, "", "All methods failed"
\* rs[i + 1] is what subprocess.run does for methods[i]
RECURSIVE Loop(_, _, _, _, _)
Loop(action, rs, i, invoked, logs) ==
    IF i >= NumMethods
    THEN [ret |-> Returned(FALSE, "", "All methods failed"), raised |-> FALSE,
          invoked |-> invoked, logs |-> logs]
    ELSE LET turn == LoopTurn(i, rs[i + 1])
             inv  == Append(invoked, Methods(action)[i + 1])
             lg   == logs \o turn.logs
         IN  IF turn.raised \/ turn.ret.returned
             THEN [ret |-> turn.ret, raised |-> turn.raised, invoked |-> inv, logs |-> lg]
             ELSE Loop(action, rs, i + 1, inv, lg)

\* the returned tuple (or raised), the command lines run and the lines logged,
\* in order
run_xampp_command(action, rs) == Loop(action, rs, 0, <<>>, <<>>)

\* what the four subprocess.run calls of one run_xampp_command can do
OutcomeVectors ==
    {<<a, b, c, d>> : a \in SubprocessRun(1), b \in SubprocessRun(2),
                      c \in SubprocessRun(3), d \in SubprocessRun(4)}

\* what a caller of run_xampp_command keeps of a call: the first element of
\* the returned tuple (success, _, _ = self.run_xampp_command(...))
ChainEnds == {run_xampp_command("start", rs).ret.succeeded : rs \in OutcomeVectors}

(***************************************************************************)
(* Task records.  kind names the task function that the thread runs:       *)
(* start_service.task, stop_service.task, restart_service.task, the four   *)
(* bulk tasks and update_status.task ("refresh").  A record holds the      *)
(* closure variable service, the task's position pc, its locals success,   *)
(* is_running and the loop index idx of update_status.task, the argument   *)
(* of its latest run_xampp_command call (action), the line the task        *)
(* function itself logged last (the lines logged inside run_xampp_command  *)
(* are those of the operator run_xampp_command) and the slot of the thread *)
(* that started it (by, 0 = main thread).  failed is no variable of the    *)
(* code: it remembers that a run_xampp_command call of the task returned   *)
(* failure, which restart_service.task itself does not look at.            *)
(* timestamp is the local of a log_message call the task is in.            *)
(***************************************************************************)
ServiceKinds == {"start", "stop", "restart"}
BulkKinds    == {"start_all", "stop_all", "restart_all", "reload"}
OpKinds      == ServiceKinds \cup BulkKinds

NoLine == Line("", 0)

Idle ==
    [kind |-> "idle", service |-> "", pc |-> "", action |-> "", success |-> FALSE,
     last |-> NoLine, idx |-> 0, is_running |-> FALSE, by |-> 0, failed |-> FALSE,
     timestamp |-> 0]

\* the first statement of each task function
FirstPc(kind) ==
    CASE kind \in {"start", "stop"} -> "disable"
      [] kind = "restart"           -> "begin"
      [] kind \in BulkKinds         -> "chain"
      [] OTHER                      -> "probe"

NewTask(kind, service, by) ==
    [Idle EXCEPT !.kind = kind, !.service = service, !.pc = FirstPc(kind),
                 !.idx = IF kind = "refresh" THEN 1 ELSE 0, !.by = by]

VerbPerService(th) ==
    CASE th.kind = "start"                       -> "start" \o th.service
      [] th.kind = "stop"                        -> "stop" \o th.service
      [] th.kind = "restart" /\ th.pc = "chain"  -> "stop" \o th.service
      [] th.kind = "restart" /\ th.pc = "chain2" -> "start" \o th.service
      [] th.kind = "start_all"                   -> "start" \o ServiceList[1]
      [] th.kind = "stop_all"                    -> "stop" \o ServiceList[1]
      [] th.kind = "restart_all"                 -> "restart"
      [] OTHER                                   -> "reload"

\* the argument the task passes to run_xampp_command at its position
Verb(th) ==
    CASE th.kind = "start"                       -> "start" \o th.service
      [] th.kind = "stop"                        -> "stop" \o th.service
      [] th.kind = "restart" /\ th.pc = "chain"  -> "stop" \o th.service
      [] th.kind = "restart" /\ th.pc = "chain2" -> "start" \o th.service
      [] th.kind = "start_all"                   -> "start"
      [] th.kind = "stop_all"                    -> "stop"
      [] th.kind = "restart_all"                 -> "restart"
      [] OTHER                                   -> "reload"

NoCall == [action |-> "", rs |-> <<>>, done |-> FALSE,
           ret |-> NoRet, raised |-> FALSE, invoked |-> <<>>, logs |-> <<>>]

(***************************************************************************)
(* Initial state: the state __init__ leaves behind.  setup_ui has created  *)
(* the widgets (label "Checking...", toggle button "Start" in the default  *)
(* state, service_status False) and the closing update_status() has        *)
(* started the first refresh thread, which has not run yet.                *)
(***************************************************************************)
Init ==
    /\ service_status = [s \in Services |-> FALSE]
    /\ service_labels = [s \in Services |-> "Checking..."]
    /\ button_text    = [s \in Services |-> "Start"]
    /\ button_state   = [s \in Services |-> "normal"]
    /\ clock          = 0
    /\ log_text       = <<>>
    /\ threads        = [t \in Tids |-> IF t = 1 THEN NewTask("refresh", "", 0) ELSE Idle]
    /\ call           = NoCall

(***************************************************************************)
(* threading.Thread(target=task, daemon=True).start()                      *)
(* The new thread takes the lowest free slot.                              *)
(***************************************************************************)
HasFreeSlot == \E t \in Tids : threads[t].kind = "idle"

FreeSlot == CHOOSE t \in Tids :
                /\ threads[t].kind = "idle"
                /\ \A u \in Tids : u < t => threads[u].kind # "idle"

StartThread(kind, service) ==
    /\ HasFreeSlot
    /\ threads' = [threads EXCEPT ![FreeSlot] = NewTask(kind, service, 0)]
    /\ UNCHANGED <<service_status, service_labels, button_text, button_state, call, clock, log_text>>

(***************************************************************************)
(* The public operations, called on the main thread by the widgets         *)
(***************************************************************************)
start_service(service) == StartThread("start", service)

stop_service(service) == StartThread("stop", service)

restart_service(service) == StartThread("restart", service)

toggle_serviceInverted(service) ==
    IF service_status[service]
    THEN start_service(service)
    ELSE stop_service(service)

toggle_service(service) ==
    IF service_status[service]
    THEN stop_service(service)
    ELSE start_service(service)

start_all == StartThread("start_all", "")

stop_all == StartThread("stop_all", "")

restart_all == StartThread("restart_all", "")

reload_xampp == StartThread("reload", "")

update_status == StartThread("refresh", "")

\* toggle_btn: a ttk.Button runs its command only while it is not disabled
ToggleButton == \E s \in Services : button_state[s] # "disabled" /\ toggle_service(s)

\* restart_btn: its state is never changed
RestartButton == \E s \in Services : restart_service(s)

StartAllButton == start_all

StopAllButton == stop_all

RestartAllButton == restart_all

ReloadButton == reload_xampp

RefreshStatusButton == update_status

(***************************************************************************)
(* Steps of the background tasks                                           *)
(***************************************************************************)
SetThread(t, th) == threads' = [threads EXCEPT ![t] = th]

\* start_service.task / stop_service.task:
\*     self.service_buttons[service].config(state="disabled")
DisableButton(t) ==
    LET th == threads[t] IN
    /\ th.kind \in {"start", "stop"} /\ th.pc = "disable"
    /\ button_state' = [button_state EXCEPT ![th.service] = "disabled"]
    /\ SetThread(t, [th EXCEPT !.pc = "chain"])
    /\ UNCHANGED <<service_status, service_labels, button_text, call, clock, log_text>>

\* restart_service.task: self.log_message(f"Restarting {service.upper()}...")
RestartBegin(t) ==
    LET th == threads[t] IN
    /\ th.kind = "restart" /\ th.pc = "begin"
    /\ SetThread(t, [th EXCEPT !.last = Line("Restarting", 0), !.pc = "chain"])
    /\ UNCHANGED <<service_status, service_labels, button_text, button_state, call, clock, log_text>>

\* where a task continues when run_xampp_command returns
AfterChain(th) ==
    IF th.kind = "restart" /\ th.pc = "chain" THEN "chain2" ELSE "report"

\* the task's  success, _, _ = self.run_xampp_command(...)  where the call
\* returned succeeded first; restart_service.task drops the whole tuple
ChainReturn(th, succeeded) ==
    [th EXCEPT !.action = Verb(th),
               !.success = IF th.kind = "restart" THEN FALSE ELSE succeeded,
               !.failed = th.failed \/ ~succeeded,
               !.pc = AfterChain(th)]

\* one call of run_xampp_command by a task.  The call works on its own
\* locals and on external commands only, so it is taken as one step.
RunXamppCommand(t) ==
    LET th == threads[t] IN
    /\ th.kind \in OpKinds /\ th.pc \in {"chain", "chain2"}
    /\ \E e \in ChainEnds : SetThread(t, ChainReturn(th, e))
    /\ UNCHANGED <<service_status, service_labels, button_text, button_state, call, clock, log_text>>

\* the line a task logs once its command(s) returned
ReportLine(kind, success) ==
    CASE kind = "start"       -> IF success THEN "started successfully" ELSE "Failed to start"
      [] kind = "stop"        -> IF success THEN "stopped successfully" ELSE "Failed to stop"
      [] kind = "restart"     -> "restarted"
      [] kind = "start_all"   -> IF success THEN "All services started successfully"
                                            ELSE "Failed to start all services"
      [] kind = "stop_all"    -> IF success THEN "All services stopped successfully"
                                            ELSE "Failed to stop all services"
      [] kind = "restart_all" -> IF success THEN "All services restarted successfully"
                                            ELSE "Failed to restart all services"
      [] OTHER                -> IF success THEN "XAMPP configuration reloaded"
                                            ELSE "Failed to reload XAMPP configuration"

ReportAssumesOutcome(t) ==
    LET th == threads[t] IN
    /\ th.kind \in OpKinds /\ th.pc = "report"
    /\ SetThread(t, [th EXCEPT !.last = Line(ReportLine(th.kind, th.success), 0),
                               !.pc = IF th.kind \in {"start", "stop"} THEN "enable"
                                                                       ELSE "update_status"])
    /\ service_status' = IF th.kind \in {"start", "stop"} /\ th.success
                         THEN [service_status EXCEPT ![th.service] = (th.kind = "start")]
                         ELSE service_status
    /\ UNCHANGED <<service_labels, button_text, button_state, call, clock, log_text>>

\* if success: self.log_message(...) else: self.log_message(...)
\* (restart_service.task: self.log_message(f"{service.upper()} restarted"))
Report(t) ==
    LET th == threads[t] IN
    /\ th.kind \in OpKinds /\ th.pc = "report"
    /\ SetThread(t, [th EXCEPT !.last = Line(ReportLine(th.kind, th.success), 0),
                               !.pc = IF th.kind \in {"start", "stop"} THEN "enable"
                                                                       ELSE "update_status"])
    /\ UNCHANGED <<service_status, service_labels, button_text, button_state, call, clock, log_text>>

\* start_service.task / stop_service.task:
\*     self.service_buttons[service].config(state="normal")
EnableButton(t) ==
    LET th == threads[t] IN
    /\ th.kind \in {"start", "stop"} /\ th.pc = "enable"
    /\ button_state' = [button_state EXCEPT ![th.service] = "normal"]
    /\ SetThread(t, [th EXCEPT !.pc = "update_status"])
    /\ UNCHANGED <<service_status, service_labels, button_text, call, clock, log_text>>

CallUpdateStatusForgotten(t) ==
    LET th == threads[t] IN
    /\ th.kind \in OpKinds /\ th.pc = "update_status"
    /\ SetThread(t, Idle)
    /\ UNCHANGED <<service_status, service_labels, button_text, button_state, call, clock, log_text>>

\* the last statement of every operation's task: self.update_status().
\* The task returns right after starting the refresh thread, and the new
\* thread takes over the slot of the thread that ends.
CallUpdateStatus(t) ==
    LET th == threads[t] IN
    /\ th.kind \in OpKinds /\ th.pc = "update_status"
    /\ SetThread(t, NewTask("refresh", "", t))
    /\ UNCHANGED <<service_status, service_labels, button_text, button_state, call, clock, log_text>>

(***************************************************************************)
(* check_service_status and update_status.task                             *)
(***************************************************************************)
\* subprocess.run(["pgrep", "-f", matcher], capture_output=True)
PgrepRun ==
    [tag : {"completed"}, returncode : {0, 1}]
    \cup {[tag |-> "exception", returncode |-> 1]}

check_service_statusTrustsFailure(service, r) ==
    IF service \in {"apache", "mysql", "ftp"}
    THEN IF r.tag = "completed" THEN r.returncode = 0 ELSE TRUE
    ELSE FALSE

check_service_status(service, r) ==
    IF service \in {"apache", "mysql", "ftp"}
    THEN IF r.tag = "completed" THEN r.returncode = 0 ELSE FALSE
    ELSE FALSE

\* is_running = self.check_service_status(service)
Probe(t) ==
    LET th == threads[t] IN
    /\ th.kind = "refresh" /\ th.pc = "probe"
    /\ \E r \in PgrepRun :
         SetThread(t, [th EXCEPT !.service = ServiceList[th.idx],
                                 !.is_running = check_service_status(ServiceList[th.idx], r),
                                 !.pc = "label"])
    /\ UNCHANGED <<service_status, service_labels, button_text, button_state, call, clock, log_text>>

\* self.service_labels[service].config(text="Running" / "Stopped")
SetLabel(t) ==
    LET th == threads[t] IN
    /\ th.kind = "refresh" /\ th.pc = "label"
    /\ service_labels' = [service_labels EXCEPT
                            ![th.service] = IF th.is_running THEN "Running" ELSE "Stopped"]
    /\ SetThread(t, [th EXCEPT !.pc = "button"])
    /\ UNCHANGED <<service_status, button_text, button_state, call, clock, log_text>>

SetButtonEnables(t) ==
    LET th == threads[t] IN
    /\ th.kind = "refresh" /\ th.pc = "button"
    /\ button_text' = [button_text EXCEPT
                         ![th.service] = IF th.is_running THEN "Stop" ELSE "Start"]
    /\ button_state' = [button_state EXCEPT ![th.service] = "normal"]
    /\ SetThread(t, [th EXCEPT !.pc = "status"])
    /\ UNCHANGED <<service_status, service_labels, call, clock, log_text>>

\* update_toggle_button: self.service_buttons[service].config(text="Stop" / "Start")
SetButton(t) ==
    LET th == threads[t] IN
    /\ th.kind = "refresh" /\ th.pc = "button"
    /\ button_text' = [button_text EXCEPT
                         ![th.service] = IF th.is_running THEN "Stop" ELSE "Start"]
    /\ SetThread(t, [th EXCEPT !.pc = "status"])
    /\ UNCHANGED <<service_status, service_labels, button_state, call, clock, log_text>>

\* update_toggle_button: self.service_status[service] = is_running,
\* then the next service of the loop, or the end of the task
SetStatus(t) ==
    LET th == threads[t] IN
    /\ th.kind = "refresh" /\ th.pc = "status"
    /\ service_status' = [service_status EXCEPT ![th.service] = th.is_running]
    /\ SetThread(t, IF th.idx < Len(ServiceList)
                    THEN [th EXCEPT !.idx = th.idx + 1, !.pc = "probe"]
                    ELSE Idle)
    /\ UNCHANGED <<service_labels, button_text, button_state, call, clock, log_text>>

Next ==
    \/ ToggleButton
    \/ RestartButton
    \/ StartAllButton
    \/ StopAllButton
    \/ RestartAllButton
    \/ ReloadButton
    \/ RefreshStatusButton
    \/ \E t \in Tids : DisableButton(t)
    \/ \E t \in Tids : RestartBegin(t)
    \/ \E t \in Tids : RunXamppCommand(t)
    \/ \E t \in Tids : Report(t)
    \/ \E t \in Tids : EnableButton(t)
    \/ \E t \in Tids : CallUpdateStatus(t)
    \/ \E t \in Tids : Probe(t)
    \/ \E t \in Tids : SetLabel(t)
    \/ \E t \in Tids : SetButton(t)
    \/ \E t \in Tids : SetStatus(t)

Spec == Init /\ [][Next]_vars

(***************************************************************************)
(* SpecOps: the program under a scheduler that lets the update_status      *)
(* tasks run one after another: a refresh thread that was started takes    *)
(* its first step only when no other refresh thread is under way.  All     *)
(* other threads are scheduled freely.                                     *)
(***************************************************************************)
UnderWay(th) == th.kind = "refresh" /\ ~(th.idx = 1 /\ th.pc = "probe")

OneRefreshAtATime ==
    \A t, u \in Tids : UnderWay(threads[t]) /\ UnderWay(threads[u]) => t = u

NextOps ==
    \/ ToggleButton
    \/ RestartButton
    \/ StartAllButton
    \/ StopAllButton
    \/ RestartAllButton
    \/ ReloadButton
    \/ RefreshStatusButton
    \/ \E t \in Tids : DisableButton(t)
    \/ \E t \in Tids : RestartBegin(t)
    \/ \E t \in Tids : RunXamppCommand(t)
    \/ \E t \in Tids : Report(t)
    \/ \E t \in Tids : EnableButton(t)
    \/ \E t \in Tids : CallUpdateStatus(t)
    \/ \E t \in Tids : Probe(t) /\ OneRefreshAtATime'
    \/ \E t \in Tids : SetLabel(t)
    \/ \E t \in Tids : SetButton(t)
    \/ \E t \in Tids : SetStatus(t)

SpecOps == Init /\ [][NextOps]_vars

(***************************************************************************)
(* SpecOpsFair: SpecOps with the scheduling the code relies on.  Every     *)
(* task is the target of a threading.Thread that has been started, and the *)
(* interpreter keeps switching between the threads that can run: a task    *)
(* that can take its next statement takes it at some time (weak fairness   *)
(* per thread).  The first probe of a refresh thread waits in SpecOps for  *)
(* the refresh under way to end; the wait ends each time that one is done, *)
(* and the waiting thread is not passed over for ever (strong fairness).   *)
(* Nothing obliges the user to press a button.                             *)
(***************************************************************************)
\* the next statement of the task in slot t, the first probe of a refresh
\* thread left aside
TaskStep(t) ==
    \/ DisableButton(t)
    \/ RestartBegin(t)
    \/ RunXamppCommand(t)
    \/ Report(t)
    \/ EnableButton(t)
    \/ CallUpdateStatus(t)
    \/ Probe(t) /\ threads[t].idx > 1
    \/ SetLabel(t)
    \/ SetButton(t)
    \/ SetStatus(t)

\* the first statement of a refresh thread, once it may run
FirstProbe(t) == Probe(t) /\ threads[t].idx = 1 /\ OneRefreshAtATime'

FairOps ==
    \A t \in Tids : WF_vars(TaskStep(t)) /\ SF_vars(FirstProbe(t))

SpecOpsFair == SpecOps /\ FairOps

(***************************************************************************)
(* SpecChain: run_xampp_command on its own.  The initial state draws the   *)
(* argument (one of the verbs the tasks pass) and what each of the four    *)
(* commands will do; the only step makes the call and records what it      *)
(* returned, the command lines it ran and the lines it logged.             *)
(***************************************************************************)
Verbs ==
    {"start", "stop", "restart", "reload"}
    \cup {"start" \o s : s \in Services} \cup {"stop" \o s : s \in Services}

InitChain ==
    /\ service_status = [s \in Services |-> FALSE]
    /\ service_labels = [s \in Services |-> "Checking..."]
    /\ button_text    = [s \in Services |-> "Start"]
    /\ button_state   = [s \in Services |-> "normal"]
    /\ clock          = 0
    /\ log_text       = <<>>
    /\ threads        = [t \in Tids |-> IF t = 1 THEN NewTask("refresh", "", 0) ELSE Idle]
    /\ \E action \in Verbs, rs \in OutcomeVectors :
         call = [NoCall EXCEPT !.action = action, !.rs = rs]

CallRunXamppCommand ==
    /\ call.action # "" /\ ~call.done
    /\ LET c == run_xampp_command(call.action, call.rs)
       IN  call' = [call EXCEPT !.done = TRUE, !.ret = c.ret, !.raised = c.raised,
                                !.invoked = c.invoked, !.logs = c.logs]
    /\ UNCHANGED <<service_status, service_labels, button_text, button_state, threads, clock, log_text>>

NextChain == CallRunXamppCommand

SpecChain == InitChain /\ [][NextChain]_vars

(***************************************************************************)
(* detect_auth_method: the dictionary methods in its insertion order, and  *)
(* what a check() can do: return True, return False, or raise (os.access   *)
(* and subprocess.run(['which', ...]) can both raise OSError).            *)
(***************************************************************************)
AuthMethods == <<"direct", "gksu", "pkexec", "sudo">>

CheckResults == {"true", "false", "raises"}

DetectTurnGivesUp(method, r) ==
    CASE r = "true"   -> [returned |-> TRUE,  method |-> method]
      [] r = "raises" -> [returned |-> TRUE,  method |-> "sudo"]
      [] OTHER        -> [returned |-> FALSE, method |-> ""]

\* try: if check(): return method / except: continue
DetectTurn(method, r) ==
    CASE r = "true"   -> [returned |-> TRUE,  method |-> method]
      [] r = "raises" -> [returned |-> FALSE, method |-> ""]
      [] OTHER        -> [returned |-> FALSE, method |-> ""]

\* for method, check in methods.items(): ... ; return 'sudo'
\* checks[k] is what the check of AuthMethods[k] does
RECURSIVE DetectLoop(_, _)
DetectLoop(checks, k) ==
    IF k > Len(AuthMethods)
    THEN "sudo"
    ELSE LET turn == DetectTurn(AuthMethods[k], checks[k])
         IN  IF turn.returned THEN turn.method ELSE DetectLoop(checks, k + 1)

detect_auth_method(checks) == DetectLoop(checks, 1)

CheckVectors == [1..Len(AuthMethods) -> CheckResults]

(***************************************************************************)
(* SpecDetect: detect_auth_method on its own.  The initial state draws     *)
(* what each of the four checks does; the only step makes the call and     *)
(* records the name it returned.                                           *)
(***************************************************************************)
InitDetect ==
    /\ service_status = [s \in Services |-> FALSE]
    /\ service_labels = [s \in Services |-> "Checking..."]
    /\ button_text    = [s \in Services |-> "Start"]
    /\ button_state   = [s \in Services |-> "normal"]
    /\ clock          = 0
    /\ log_text       = <<>>
    /\ threads        = [t \in Tids |-> Idle]
    /\ \E checks \in CheckVectors :
         call = [checks |-> checks, done |-> FALSE, auth_method |-> ""]

CallDetectAuthMethod ==
    /\ ~call.done
    /\ call' = [call EXCEPT !.done = TRUE,
                            !.auth_method = detect_auth_method(call.checks)]
    /\ UNCHANGED <<service_status, service_labels, button_text, button_state, threads, clock, log_text>>

NextDetect == CallDetectAuthMethod

SpecDetect == InitDetect /\ [][NextDetect]_vars

(***************************************************************************)
(* SpecAuth: a privileged action of two controllers side by side.  Both    *)
(* are given the same verb and meet the same command outcomes; they differ *)
(* in what __init__ stored in self.auth_method.  The only step lets each   *)
(* of them make its run_xampp_command call and records, for each, the      *)
(* command lines it ran, the lines it logged and what it returned.         *)
(***************************************************************************)
\* the values self.auth_method = self.detect_auth_method() can get
DetectedMethods == {detect_auth_method(checks) : checks \in CheckVectors}

self_run_xampp_commandTrustsDetected(auth_method, action, rs) ==
    IF auth_method = "direct"
    THEN Loop(action, rs, 0, <<>>, <<>>)
    ELSE Loop(action, rs, 1, <<>>, <<>>)

\* self.run_xampp_command(action) of a controller whose self.auth_method is
\* auth_method: the method body does not read the attribute
self_run_xampp_command(auth_method, action, rs) == run_xampp_command(action, rs)

InitAuth ==
    /\ service_status = [s \in Services |-> FALSE]
    /\ service_labels = [s \in Services |-> "Checking..."]
    /\ button_text    = [s \in Services |-> "Start"]
    /\ button_state   = [s \in Services |-> "normal"]
    /\ clock          = 0
    /\ log_text       = <<>>
    /\ threads        = [t \in Tids |-> Idle]
    /\ \E a, b \in DetectedMethods, action \in Verbs, rs \in OutcomeVectors :
         /\ a # b
         /\ call = [auth_method |-> <<a, b>>, action |-> action, rs |-> rs,
                    done |-> FALSE, run |-> <<>>]

CallBoth ==
    /\ ~call.done
    /\ call' = [call EXCEPT
                  !.done = TRUE,
                  !.run  = [k \in 1..2 |->
                              self_run_xampp_command(call.auth_method[k],
                                                     call.action, call.rs)]]
    /\ UNCHANGED <<service_status, service_labels, button_text, button_state, threads, clock, log_text>>

NextAuth == CallBoth

SpecAuth == InitAuth /\ [][NextAuth]_vars

(***************************************************************************)
(* run_command(command, show_output): r is what subprocess.run does for    *)
(* command.  The result tells the tuple returned (or that an exception     *)
(* left the function) and the lines logged, in order.                      *)
(***************************************************************************)
\* the statements of the try after subprocess.run has returned r
RunCompleted(r, show_output) ==
    [ret    |-> Returned(r.returncode = 0, r.stdout, r.stderr),
     raised |-> FALSE,
     logs   |-> IF show_output
                THEN (IF r.stdout # "" THEN <<Line("Output", 0)>> ELSE <<>>)
                     \o (IF r.stderr # "" THEN <<Line("Error", 0)>> ELSE <<>>)
                ELSE <<>>]

RunTimedOutEscapes ==
    [ret |-> NoRet, raised |-> TRUE, logs |-> <<>>]

\* except subprocess.TimeoutExpired:
RunTimedOut ==
    [ret    |-> Returned(FALSE, "", "Command timed out"),
     raised |-> FALSE,
     logs   |-> <<Line("Command timed out", 0)>>]

\* except Exception as e:
RunException(r) ==
    [ret    |-> Returned(FALSE, "", r.stderr),
     raised |-> FALSE,
     logs   |-> <<Line("Error running command", 0)>>]

run_command(command, show_output, r) ==
    LET rest == CASE r.tag = "completed" -> RunCompleted(r, show_output)
                  [] r.tag = "timeout"   -> RunTimedOut
                  [] OTHER               -> RunException(r)
    IN  [rest EXCEPT !.logs = <<Line("Running", 0)>> \o rest.logs]

(***************************************************************************)
(* SpecRun: run_command on its own.  The initial state draws the command   *)
(* line (one of those the controller builds), show_output and what         *)
(* subprocess.run does; the only step makes the call.                      *)
(***************************************************************************)
CommandLines == {Methods(action)[k] : action \in Verbs, k \in 1..NumMethods}

InitRun ==
    /\ service_status = [s \in Services |-> FALSE]
    /\ service_labels = [s \in Services |-> "Checking..."]
    /\ button_text    = [s \in Services |-> "Start"]
    /\ button_state   = [s \in Services |-> "normal"]
    /\ clock          = 0
    /\ log_text       = <<>>
    /\ threads        = [t \in Tids |-> Idle]
    /\ \E command \in CommandLines, show_output \in BOOLEAN, r \in SubprocessRun(1) :
         call = [command |-> command, show_output |-> show_output, r |-> r,
                 done |-> FALSE, ret |-> NoRet, raised |-> FALSE, logs |-> <<>>]

CallRunCommand ==
    /\ ~call.done
    /\ LET c == run_command(call.command, call.show_output, call.r)
       IN  call' = [call EXCEPT !.done = TRUE, !.ret = c.ret,
                                !.raised = c.raised, !.logs = c.logs]
    /\ UNCHANGED <<service_status, service_labels, button_text, button_state, threads, clock, log_text>>

NextRun == CallRunCommand

SpecRun == InitRun /\ [][NextRun]_vars

(***************************************************************************)
(* SpecProbe: check_service_status on its own.  The initial state draws    *)
(* the key it is called with (a service key or some other string), the     *)
(* process names that pgrep would find in the process table, and whether   *)
(* running pgrep fails; the only step makes the call.                      *)
(***************************************************************************)
\* the pattern given to pgrep -f for a service key
Matcher(service) ==
    CASE service = "apache" -> "httpd"
      [] service = "mysql"  -> "mysqld"
      [] service = "ftp"    -> "proftpd"
      [] OTHER              -> ""

Daemons == {"httpd", "mysqld", "proftpd"}

\* keys check_service_status may be given: the service keys and one that
\* is none
ProbeKeys == Services \cup {"php"}

\* subprocess.run(["pgrep", "-f", matcher], capture_output=True) against a
\* process table where the daemons of found run
Pgrep(matcher, found, fails) ==
    IF fails
    THEN [tag |-> "exception", returncode |-> 1]
    ELSE [tag |-> "completed", returncode |-> IF matcher \in found THEN 0 ELSE 1]

InitProbe ==
    /\ service_status = [s \in Services |-> FALSE]
    /\ service_labels = [s \in Services |-> "Checking..."]
    /\ button_text    = [s \in Services |-> "Start"]
    /\ button_state   = [s \in Services |-> "normal"]
    /\ clock          = 0
    /\ log_text       = <<>>
    /\ threads        = [t \in Tids |-> Idle]
    /\ \E service \in ProbeKeys, found \in SUBSET Daemons, fails \in BOOLEAN :
         call = [service |-> service, found |-> found, fails |-> fails,
                 done |-> FALSE, is_running |-> FALSE]

CallCheckServiceStatus ==
    /\ ~call.done
    /\ call' = [call EXCEPT
                  !.done = TRUE,
                  !.is_running =
                      check_service_status(call.service,
                          Pgrep(Matcher(call.service), call.found, call.fails))]
    /\ UNCHANGED <<service_status, service_labels, button_text, button_state, threads, clock, log_text>>

NextProbe == CallCheckServiceStatus

SpecProbe == InitProbe /\ [][NextProbe]_vars

(***************************************************************************)
(* SpecLog: log_message called by the tasks of several operations.  A      *)
(* call is two steps, as the statements of log_message are: it formats     *)
(* datetime.now() into timestamp, then it inserts the line at the end of   *)
(* the log widget.  Nothing keeps another thread from running between the  *)
(* two.  The clock ticks on its own; the Clear Log button empties the      *)
(* widget.                                                                 *)
(***************************************************************************)
\* datetime.now().strftime("%H:%M:%S"): the second of the day
strftime(now) == now % DayLength

\* the task of a bulk operation arrives at a self.log_message(...) call
TaskLogs(t) ==
    /\ threads[t].kind = "idle"
    /\ \E kind \in BulkKinds :
         SetThread(t, [NewTask(kind, "", 0) EXCEPT !.pc = "log_message"])
    /\ UNCHANGED <<service_status, service_labels, button_text, button_state, call,
                   clock, log_text>>

\* timestamp = datetime.now().strftime("%H:%M:%S")
ReadClock(t) ==
    LET th == threads[t] IN
    /\ th.pc = "log_message"
    /\ SetThread(t, [th EXCEPT !.timestamp = strftime(clock), !.pc = "insert"])
    /\ UNCHANGED <<service_status, service_labels, button_text, button_state, call,
                   clock, log_text>>

\* self.log_text.insert(tk.END, f"[{timestamp}] {message}\n"), and the call
\* returns
Insert(t) ==
    LET th == threads[t] IN
    /\ th.pc = "insert"
    /\ Len(log_text) < MaxLog
    /\ log_text' = Append(log_text, th.timestamp)
    /\ SetThread(t, Idle)
    /\ UNCHANGED <<service_status, service_labels, button_text, button_state, call, clock>>

\* a second passes
Tick ==
    /\ clock < MaxClock
    /\ clock' = clock + 1
    /\ UNCHANGED <<service_status, service_labels, button_text, button_state, threads,
                   call, log_text>>

\* self.log_text.delete(1.0, tk.END)
clear_log ==
    /\ log_text # <<>>
    /\ log_text' = <<>>
    /\ UNCHANGED <<service_status, service_labels, button_text, button_state, threads,
                   call, clock>>

InitLog ==
    /\ service_status = [s \in Services |-> FALSE]
    /\ service_labels = [s \in Services |-> "Checking..."]
    /\ button_text    = [s \in Services |-> "Start"]
    /\ button_state   = [s \in Services |-> "normal"]
    /\ threads        = [t \in Tids |-> Idle]
    /\ call           = NoCall
    /\ clock          = 0
    /\ log_text       = <<>>

NextLog ==
    \/ \E t \in Tids : TaskLogs(t)
    \/ \E t \in Tids : ReadClock(t)
    \/ \E t \in Tids : Insert(t)
    \/ Tick
    \/ clear_log

SpecLog == InitLog /\ [][NextLog]_vars

(***************************************************************************)
(* SpecRefresh: the status refresh threads on their own, scheduled freely. *)
(* The user presses Refresh Status only, so every thread runs              *)
(* update_status.task; the threads take their statements in any order.     *)
(* call notes, for each service, whether check_service_status has been     *)
(* called for it and what the call made last returned.                     *)
(***************************************************************************)
InitRefresh ==
    /\ service_status = [s \in Services |-> FALSE]
    /\ service_labels = [s \in Services |-> "Checking..."]
    /\ button_text    = [s \in Services |-> "Start"]
    /\ button_state   = [s \in Services |-> "normal"]
    /\ clock          = 0
    /\ log_text       = <<>>
    /\ threads        = [t \in Tids |-> IF t = 1 THEN NewTask("refresh", "", 0) ELSE Idle]
    /\ call           = [s \in Services |-> [probed |-> FALSE, is_running |-> FALSE]]

\* is_running = self.check_service_status(service), the statement of Probe,
\* with the value returned noted in call
ProbeNoted(t) ==
    LET th == threads[t] IN
    /\ th.kind = "refresh" /\ th.pc = "probe"
    /\ \E r \in PgrepRun :
         LET is_running == check_service_status(ServiceList[th.idx], r) IN
         /\ SetThread(t, [th EXCEPT !.service = ServiceList[th.idx],
                                    !.is_running = is_running,
                                    !.pc = "label"])
         /\ call' = [call EXCEPT ![ServiceList[th.idx]] =
                                     [probed |-> TRUE, is_running |-> is_running]]
    /\ UNCHANGED <<service_status, service_labels, button_text, button_state,
                   clock, log_text>>

NextRefresh ==
    \/ RefreshStatusButton
    \/ \E t \in Tids : ProbeNoted(t)
    \/ \E t \in Tids : SetLabel(t)
    \/ \E t \in Tids : SetButton(t)
    \/ \E t \in Tids : SetStatus(t)

SpecRefresh == InitRefresh /\ [][NextRefresh]_vars

(***************************************************************************)
(* Properties of run_xampp_command (checked under SpecChain)               *)
(***************************************************************************)
\* the kind of escalation a command line is
Escalation(command) ==
    CASE command[1] = XamppScript                        -> "direct"
      [] command[1] = "sudo" /\ command[2] = "-n"        -> "non-interactive"
      [] command[1] = "pkexec"                           -> "interactive"
      [] command[1] = "timeout" /\ command[3] = "sudo"   -> "short-timeout"
      [] OTHER                                           -> "other"

EscalationOrder == <<"direct", "non-interactive", "interactive", "short-timeout">>

ExitedZero(r) == r.tag = "completed" /\ r.returncode = 0

\* the first candidate that exits with code 0, or 0 when none does
FirstOk(rs) ==
    IF \E k \in 1..Len(rs) : ExitedZero(rs[k])
    THEN CHOOSE k \in 1..Len(rs) :
            ExitedZero(rs[k]) /\ \A j \in 1..(k - 1) : ~ExitedZero(rs[j])
    ELSE 0

\* C3: the chain runs its candidates in the order direct, non-interactive,
\* interactive, short-timeout, each against the control script with the
\* requested verb; when a candidate exits with code 0 the chain has run
\* exactly the candidates up to the first such one, returns succeeded = TRUE
\* with that candidate's stdout and stderr, and has run no later candidate.
C3_OrderedFirstSuccess ==
    call.done =>
      LET n == Len(call.invoked)
          f == FirstOk(call.rs)
      IN  /\ n \in 1..Len(EscalationOrder)
          /\ \A k \in 1..n :
               /\ Escalation(call.invoked[k]) = EscalationOrder[k]
               /\ call.invoked[k][Len(call.invoked[k])] = call.action
               /\ call.invoked[k][Len(call.invoked[k]) - 1] = XamppScript
          /\ f # 0 =>
               /\ n = f
               /\ call.ret.returned /\ call.ret.succeeded
               /\ call.ret.stdout = call.rs[f].stdout
               /\ call.ret.stderr = call.rs[f].stderr
          /\ call.ret.succeeded => f # 0

\* candidates 1 and 2 fail, candidate 3 exits with 0 and printed something:
\* the call has returned after three commands
C3_Witness ==
    /\ call.done
    /\ ~ExitedZero(call.rs[1]) /\ ~ExitedZero(call.rs[2]) /\ ExitedZero(call.rs[3])
    /\ call.rs[3].stdout = "out3"
    /\ ExitedZero(call.rs[4])
    /\ Len(call.invoked) = 3
    /\ call.ret.succeeded /\ call.ret.stdout = "out3"

AllFailed(rs) == \A k \in 1..Len(rs) : ~ExitedZero(rs[k])

\* C4: when all four candidates fail, the chain returns succeeded = FALSE
\* together with a non-empty failure message.
C4_FailureHasMessage ==
    (call.done /\ AllFailed(call.rs)) =>
        /\ call.ret.returned /\ ~call.ret.succeeded
        /\ call.ret.stderr # ""

\* all four candidates failed and the call has returned
C4_Witness ==
    /\ call.done /\ AllFailed(call.rs)
    /\ call.ret.returned /\ ~call.ret.succeeded

Errored(r) == r.tag \in {"timeout", "exception"}

\* C10: a timeout or launch failure of candidate k is treated like a
\* non-zero exit: for k < 4 the chain goes on to candidate k + 1, for k = 4
\* it returns succeeded = FALSE; the call always returns, it never raises.
C10_ErrorsAbsorbed ==
    call.done =>
      /\ ~call.raised /\ call.ret.returned
      /\ \A k \in 1..Len(call.invoked) :
           Errored(call.rs[k]) =>
             IF k < NumMethods
             THEN /\ Len(call.invoked) >= k + 1
                  /\ Escalation(call.invoked[k + 1]) = EscalationOrder[k + 1]
             ELSE ~call.ret.succeeded

\* candidate 1 times out, candidate 2 cannot be launched, candidate 3 exits
\* non-zero and candidate 4 times out: four commands were run and the call
\* returned failure
C10_Witness ==
    /\ call.done
    /\ call.rs[1].tag = "timeout" /\ call.rs[2].tag = "exception"
    /\ call.rs[3].tag = "completed" /\ call.rs[4].tag = "timeout"
    /\ Len(call.invoked) = 4
    /\ call.ret.returned /\ ~call.ret.succeeded

(***************************************************************************)
(* Properties of the operations and their tasks (checked under SpecOps)    *)
(***************************************************************************)
\* Busy(S): the only per-service "operation under way" mark the code keeps
\* is the disabled state of the service's toggle button
Busy(s) == button_state[s] = "disabled"

\* the start / stop / restart operations on s that have begun and have not
\* completed
InFlight(s) ==
    {t \in Tids : threads[t].kind \in ServiceKinds /\ threads[t].service = s}

\* C1: for every service key, at most one start/stop/restart operation on
\* it is executing at any time.
C1_SingleFlight == \A s \in Services : Cardinality(InFlight(s)) <= 1

\* position of a service in the loop of update_status.task
Index(s) == CHOOSE n \in 1..Len(ServiceList) : ServiceList[n] = s

\* the refresh task th has written service_status[s]
HasWritten(th, s) == th.kind = "refresh" /\ th.idx > Index(s)

\* C2: when a start or stop operation on S sets Busy(S) back to false, the
\* status refresh that this operation triggered has already probed S and
\* written service_status[S].
C2_RefreshBeforeBusyFalse ==
    [][\A t \in Tids :
         (/\ threads[t].kind \in {"start", "stop"}
          /\ Busy(threads[t].service)
          /\ threads[t].pc = "enable" /\ threads'[t].pc = "update_status"
          /\ button_state'[threads[t].service] = "normal")
         => \E r \in Tids : /\ threads[r].by = t
                            /\ HasWritten(threads[r], threads[t].service)]_vars

\* C5: a start, stop or restart request on S that arrives while Busy(S) is
\* true is rejected: no thread for an operation on S is started.
C5_BusyRejects ==
    [][\A t \in Tids :
         (threads[t].kind = "idle" /\ threads'[t].kind \in ServiceKinds)
         => ~Busy(threads'[t].service)]_vars

\* the task in slot t makes a call of run_xampp_command in this step
Invokes(t) ==
    /\ threads[t].pc \in {"chain", "chain2"}
    /\ threads'[t] # threads[t]

\* C6: between the stop and the start of a restart of S, no other start,
\* stop or restart operation on S runs the control script.
C6_RestartNotInterleaved ==
    [][\A r, t \in Tids :
         (/\ r # t
          /\ threads[r].kind = "restart" /\ threads[r].pc = "chain2"
          /\ threads[t].kind \in ServiceKinds
          /\ threads[t].service = threads[r].service)
         => ~Invokes(t)]_vars

\* C7: at most one bulk operation (start_all, stop_all, restart_all,
\* reload) is in flight at any time.
C7_OneBulkOperation ==
    Cardinality({t \in Tids : threads[t].kind \in BulkKinds}) <= 1

\* C8: a toggle of S starts exactly one operation: the stop operation when
\* service_status[S] is true at the time of the call, the start operation
\* when it is false (as it is before the first probe); the stop operation
\* runs the verb stop<S>, the start operation the verb start<S>.
C8_ToggleDispatch ==
    [][\A t \in Tids :
         /\ (threads[t].kind = "idle" /\ threads'[t].kind \in {"start", "stop"}) =>
              /\ (threads'[t].kind = "stop") <=> service_status[threads'[t].service]
              /\ \A u \in Tids \ {t} : threads'[u] = threads[u]
         /\ (threads[t].kind \in {"start", "stop"} /\ Invokes(t)) =>
              threads'[t].action = threads[t].kind \o threads[t].service]_vars

\* a toggle of a service seen running has run the verb stop<S>, while
\* another toggle of a service seen stopped is about to run start<S>
C8_Witness ==
    \E t, u \in Tids :
        /\ threads[t].kind = "stop" /\ threads[t].action = "stop" \o threads[t].service
        /\ threads[u].kind = "start" /\ threads[u].pc = "chain"
        /\ ~service_status[threads[u].service]

\* C9: service_status[S] changes only in the step of a status refresh that
\* writes the probe result it holds for S; no step of an operation's task
\* changes it, whether its command succeeded or failed.
C9_OnlyProbeWrites ==
    [][\A s \in Services :
         service_status'[s] # service_status[s] =>
            \E t \in Tids :
               /\ threads[t].kind = "refresh" /\ threads[t].pc = "status"
               /\ threads[t].service = s
               /\ threads'[t] # threads[t]
               /\ service_status'[s] = threads[t].is_running]_vars

\* a start command has succeeded and its task has logged so, and the
\* service is still recorded as not running; a stop has failed likewise
\* with its service still recorded as running
C9_Witness ==
    \E t, u \in Tids :
        /\ threads[t].kind = "start" /\ threads[t].pc = "update_status"
        /\ threads[t].success /\ ~service_status[threads[t].service]
        /\ threads[u].kind = "stop" /\ threads[u].pc = "enable"
        /\ ~threads[u].success /\ service_status[threads[u].service]

(***************************************************************************)
(* Completion of the operations (checked under SpecOpsFair)                *)
(***************************************************************************)
\* the task in slot t belongs to an operation that has begun
Begun(t) == threads[t].kind \in OpKinds

\* the task of an operation has logged its closing line and is about to
\* start the status refresh
Reported(t) ==
    /\ threads[t].kind \in OpKinds /\ threads[t].pc = "update_status"
    /\ threads[t].last.msg = ReportLine(threads[t].kind, threads[t].success)

\* the refresh thread that the operation of slot t started has probed the
\* last service
Refreshed(t) ==
    /\ threads[t].kind = "refresh" /\ threads[t].by = t
    /\ threads[t].idx = Len(ServiceList) /\ threads[t].pc = "status"

\* C11: every start, stop, restart or bulk operation that has begun
\* completes whatever its commands do: its task logs its closing line, the
\* refresh it starts probes every service and the thread ends; a service
\* whose toggle button an operation disabled gets it enabled again.
C11_OperationsComplete ==
    /\ \A t \in Tids : Begun(t) ~> Reported(t)
    /\ \A t \in Tids : Reported(t) ~> Refreshed(t)
    /\ \A t \in Tids : Refreshed(t) ~> (threads[t].kind = "idle")
    /\ \A s \in Services : Busy(s) ~> ~Busy(s)

\* a start whose command failed has logged the failure, its service is not
\* busy any more, and the refresh started by the other operation is at its
\* last service
C11_Witness ==
    \E t, u \in Tids :
        /\ Reported(t) /\ threads[t].kind = "start" /\ ~threads[t].success
        /\ threads[t].last.msg = "Failed to start"
        /\ ~Busy(threads[t].service)
        /\ Refreshed(u)

(***************************************************************************)
(* The closing log line of an operation (checked under SpecOps)            *)
(***************************************************************************)
SuccessLines ==
    {"started successfully", "stopped successfully", "restarted",
     "All services started successfully", "All services stopped successfully",
     "All services restarted successfully", "XAMPP configuration reloaded"}

FailureLines ==
    {"Failed to start", "Failed to stop", "Failed to start all services",
     "Failed to stop all services", "Failed to restart all services",
     "Failed to reload XAMPP configuration"}

\* the task in slot t has logged the last line of its operation
Closed(t) ==
    /\ threads[t].kind \in OpKinds
    /\ threads[t].pc \in {"enable", "update_status"}

\* C12: the last line logged for a start, stop, restart or bulk operation
\* tells its outcome: it is a success line only if every escalation chain
\* of the operation succeeded, and a failure line if one of them failed.
C12_LastLineTellsOutcome ==
    \A t \in Tids :
        Closed(t) =>
            /\ threads[t].last.msg \in SuccessLines \cup FailureLines
            /\ threads[t].last.msg \in SuccessLines => ~threads[t].failed
            /\ threads[t].failed => threads[t].last.msg \in FailureLines

(***************************************************************************)
(* Properties of detect_auth_method (checked under SpecDetect)             *)
(***************************************************************************)
\* the positions of the mechanisms whose check returned True
Available(checks) == {k \in 1..Len(AuthMethods) : checks[k] = "true"}

\* C13: detect_auth_method returns the first available mechanism in the
\* order direct, gksu, pkexec, sudo, and sudo when none is available; a
\* check that raises counts as unavailable and detection goes on.
C13_FirstAvailable ==
    call.done =>
        LET a == Available(call.checks) IN
        /\ AuthMethods = <<"direct", "gksu", "pkexec", "sudo">>
        /\ a = {} => call.auth_method = "sudo"
        /\ a # {} =>
              \E k \in a : /\ \A j \in a : k <= j
                           /\ call.auth_method = AuthMethods[k]

\* the direct check raises, gksu is missing, pkexec and sudo are there:
\* detection has gone on past the error and returned pkexec
C13_Witness ==
    /\ call.done
    /\ call.checks = <<"raises", "false", "true", "true">>
    /\ call.auth_method = "pkexec"

C15_RunCommandAbsorbs ==
    call.done =>
        /\ ~call.raised /\ call.ret.returned
        /\ call.ret.succeeded <=> ExitedZero(call.r)
        /\ call.r.tag = "completed" =>
              call.ret.stdout = call.r.stdout /\ call.ret.stderr = call.r.stderr
        /\ call.r.tag = "timeout" =>
              call.ret.stdout = "" /\ call.ret.stderr = "Command timed out"
        /\ call.r.tag = "exception" =>
              call.ret.stdout = "" /\ call.ret.stderr = call.r.stderr

\* subprocess.run timed out and the call has returned failure with the
\* timeout text
C15_Witness ==
    /\ call.done /\ call.r.tag = "timeout"
    /\ call.ret.returned /\ ~call.ret.succeeded
    /\ call.ret.stderr = "Command timed out"

(***************************************************************************)
(* Properties of check_service_status (checked under SpecProbe)            *)
(***************************************************************************)
\* C16: check_service_status(S) returns TRUE only when S is a service key
\* and the search of the process table for the daemon of S (httpd for
\* apache, mysqld for mysql, proftpd for ftp) finds a match; it returns
\* FALSE when there is no match, when running the search fails, and when S
\* is no service key.  It returns a value in every case.
C16_ProbeFailsSoft ==
    call.done =>
        /\ call.is_running \in BOOLEAN
        /\ call.is_running <=>
              /\ call.service \in {"apache", "mysql", "ftp"}
              /\ ~call.fails
              /\ \/ call.service = "apache" /\ "httpd" \in call.found
                 \/ call.service = "mysql" /\ "mysqld" \in call.found
                 \/ call.service = "ftp" /\ "proftpd" \in call.found

\* mysqld runs but the search for it fails: the probe has answered FALSE
C16_Witness ==
    /\ call.done /\ call.service = "mysql"
    /\ "mysqld" \in call.found /\ call.fails
    /\ ~call.is_running

(***************************************************************************)
(* The bulk operations (checked under SpecOps)                             *)
(***************************************************************************)
BareVerb(kind) ==
    CASE kind = "start_all"   -> "start"
      [] kind = "stop_all"    -> "stop"
      [] kind = "restart_all" -> "restart"
      [] kind = "reload"      -> "reload"
      [] OTHER                -> ""

\* C17: each of start_all, stop_all, restart_all and reload_xampp runs the
\* escalation chain exactly once, with the bare verb start, stop, restart
\* or reload; only when that call has returned, with either result, does
\* its task start a status refresh, and that refresh probes apache, mysql
\* and ftp, each once and in this order, before it ends.
C17_BulkOnceThenRefresh ==
    [][\A t \in Tids :
         LET th == threads[t]
             nx == threads'[t]
         IN
         \* the call: made from the first position of the task only, with
         \* the bare verb, and the task does not come back to it
         /\ (th.kind \in BulkKinds /\ Invokes(t)) =>
               /\ th.action = ""
               /\ nx.action = BareVerb(th.kind)
               /\ nx.kind = th.kind /\ nx.pc = "report"
         /\ (nx.kind \in BulkKinds /\ nx.pc = "chain" /\ nx # th) =>
               th.kind = "idle"
         \* the refresh: started by the task after its call has returned
         /\ (th.kind \in BulkKinds /\ nx.kind # th.kind) =>
               /\ th.pc = "update_status" /\ th.action = BareVerb(th.kind)
               /\ nx = NewTask("refresh", "", t)
         \* the refresh probes the services one after the other and ends
         \* after the last
         /\ (th.kind = "refresh" /\ th.pc = "probe" /\ nx # th) =>
               nx.service = <<"apache", "mysql", "ftp">>[th.idx]
         /\ (th.kind = "refresh" /\ nx.kind = "refresh" /\ nx.idx # th.idx) =>
               th.pc = "status" /\ nx.idx = th.idx + 1
         /\ (th.kind = "refresh" /\ nx.kind # "refresh") =>
               th.idx = 3 /\ th.pc = "status"]_vars

\* a reload whose chain failed is about to start its refresh, while the
\* refresh started by another operation is at its last service
C17_Witness ==
    \E t, u \in Tids :
        /\ threads[t].kind = "reload" /\ threads[t].pc = "update_status"
        /\ threads[t].action = "reload" /\ ~threads[t].success
        /\ threads[u].kind = "refresh" /\ threads[u].by = u
        /\ threads[u].idx = 3 /\ threads[u].service = "ftp"

(***************************************************************************)
(* What changes Busy (checked under SpecOps)                               *)
(***************************************************************************)
\* the task in slot t takes a step
Steps(t) == threads'[t] # threads[t] /\ threads[t].kind # "idle"

\* C18: Busy(S) changes only in a step of the task of a start, stop or
\* restart operation on S.  A step of a status refresh leaves Busy of every
\* service as it is.  A bulk operation does not write Busy, and it does not
\* look at it: it is started, and its task goes on, whether or not some
\* service is busy.
C18_BusyFrame ==
    [][/\ \A s \in Services :
            (Busy(s)' # Busy(s)) =>
               \E t \in Tids : /\ Steps(t)
                               /\ threads[t].kind \in ServiceKinds
                               /\ threads[t].service = s
       /\ \A t \in Tids :
            (Steps(t) /\ threads[t].kind \in BulkKinds \cup {"refresh"}) =>
               button_state' = button_state
       /\ \A t \in Tids :
            threads[t].kind \in BulkKinds =>
               ENABLED (RunXamppCommand(t) \/ Report(t) \/ CallUpdateStatus(t))
       /\ HasFreeSlot =>
            /\ ENABLED StartAllButton /\ ENABLED StopAllButton
            /\ ENABLED RestartAllButton /\ ENABLED ReloadButton]_vars

\* while a start or stop on a service is under way and the service is
\* busy, a bulk operation has run its command and logged the result
C18_Witness ==
    \E s \in Services, t, u \in Tids :
        /\ Busy(s)
        /\ threads[t].kind \in {"start", "stop"} /\ threads[t].service = s
        /\ threads[t].pc = "chain"
        /\ threads[u].kind \in BulkKinds /\ threads[u].pc = "update_status"

(***************************************************************************)
(* The log of one chain run (checked under SpecChain)                      *)
(***************************************************************************)
\* the lines by which run_xampp_command tells that method k failed
FailureTexts ==
    {"Method failed, trying next...", "Method timed out", "Method exception", "Error"}

\* the positions in logs of the line announcing method k
Announced(logs, k) == {p \in 1..Len(logs) : logs[p] = Line("Trying method", k)}

\* C19: in one run of the chain every attempt is announced in the log
\* before it is made (one "Trying method k" line per command run, in
\* order), and every attempt that failed (non-zero exit, timeout or launch
\* failure, also a last candidate that failed without stderr) has, after
\* its announcement and before the next announcement or the return, a line
\* telling that method k failed.
C19_AttemptsLogged ==
    call.done =>
      \A k \in 1..Len(call.invoked) :
        /\ Cardinality(Announced(call.logs, k)) = 1
        /\ \A j \in 1..(k - 1) :
             \A p \in Announced(call.logs, j), q \in Announced(call.logs, k) : p < q
        /\ ~ExitedZero(call.rs[k]) =>
             \E q \in 1..Len(call.logs) :
                /\ call.logs[q].msg \in FailureTexts /\ call.logs[q].n = k
                /\ \A p \in Announced(call.logs, k) : p < q
                /\ \A p \in Announced(call.logs, k + 1) : q < p

(***************************************************************************)
(* The order of the log (checked under SpecLog)                            *)
(***************************************************************************)
\* C20: the timestamps of the lines of the log, in the order the lines
\* were appended, never decrease, also when several background tasks log
\* at the same time.
C20_TimestampsOrdered ==
    \A i, j \in 1..Len(log_text) : i < j => log_text[i] <= log_text[j]

(***************************************************************************)
(* Concurrent status refreshes (checked under SpecRefresh)                 *)
(***************************************************************************)
\* no update_status.task is running
NoRefresh == \A t \in Tids : threads[t].kind # "refresh"

\* C21: whenever no status refresh is in progress, the label of a service
\* reads "Running" exactly when service_status of the service is TRUE and
\* exactly when its toggle button reads "Stop", also after refresh threads
\* have run with their steps interleaved.
C21_PresentationsAgree ==
    NoRefresh =>
        \A s \in Services :
            /\ (service_labels[s] = "Running") <=> service_status[s]
            /\ service_status[s] <=> (button_text[s] = "Stop")

\* C22: once every status refresh has finished, service_status of a
\* service is what the probe of the service taken last returned: a refresh
\* that probed earlier has not overwritten the value of a later probe.
C22_LastProbeWins ==
    NoRefresh =>
        \A s \in Services :
            call[s].probed => service_status[s] = call[s].is_running

====
